---- MODULE Spec2Model ----
(***************************************************************************)
(* Model of the Hall-of-Fame enhancer dashboard: the chunked-CSV loader of  *)
(* data_processor_chunked.py (DataProcessor) and the Streamlit script of    *)
(* app.py (load, cascading filter options, selection application, views).   *)
(*                                                                          *)
(* A DataFrame is a record [isNone, rows]: isNone is Python's None, rows is *)
(* the sequence of its rows in index order; a row is a function from column *)
(* names to cell values.  Every cell value is a string; NaN is the null.    *)
(***************************************************************************)
EXTENDS Integers, Sequences, FiniteSets, TLC

VARIABLES
    chunk_dir,          \* the data directory: chunk file name -> rows of that CSV file
    metadata_file,      \* the feather file: [exists, rows] with the source column names
    pc,                 \* position of the session: start, loaded, options, widgets, stopped
    load_result,        \* the tuple DataProcessor.load_all_data returned
    peak_data,          \* app.py: first name of the unpacked tuple
    hof_enhancers,      \* app.py: second name of the unpacked tuple
    enhancer_metadata,  \* app.py: third name of the unpacked tuple
    base_enhancers,     \* app.py:39
    base_metadata,      \* app.py:40
    base_cell_types,    \* app.py:48
    filter_state,       \* st.session_state.filter_state
    current_options,    \* app.py:116
    rendered            \* what the script has put on the page in the current run

vars == <<chunk_dir, metadata_file, pc, load_result, peak_data, hof_enhancers,
          enhancer_metadata, base_enhancers, base_metadata, base_cell_types,
          filter_state, current_options, rendered>>

----------------------------------------------------------------------------
(* Bounds of the model *)

MaxChunkRows == 2

MaxMetaRows == 2

MaxLabels == 3

----------------------------------------------------------------------------
(* Values *)

NaN == "NaN"

None == [isNone |-> TRUE, rows |-> <<>>]

DataFrame(rows) == [isNone |-> FALSE, rows |-> rows]

\* df.empty (only asked of a table that is not None)
Empty(df) == Len(df.rows) = 0

\* Python's order on the strings the model uses (ascending, as sorted() orders them)
Lex == <<"", "1e10", "1e9", "All", "E1", "E2", "E3", "EPI", "FALSE", "G1", "G2",
         "LIGHTSHEET", "NaN", "TRUE", "True", "X", "Y", "img_a", "img_b", "img_c"
         >>

LexRank == [s \in {Lex[i] : i \in 1..Len(Lex)} |-> CHOOSE i \in 1..Len(Lex) : Lex[i] = s]

Range(seq) == {seq[i] : i \in 1..Len(seq)}

\* Series.unique(): the distinct values in order of first appearance
RECURSIVE Unique(_)
Unique(seq) ==
    IF seq = <<>> THEN <<>>
    ELSE LET front == Unique(SubSeq(seq, 1, Len(seq) - 1))
             last == seq[Len(seq)]
         IN  IF last \in Range(front) THEN front ELSE Append(front, last)

\* df[col] as a sequence of cell values
Column(rows, col) == [i \in 1..Len(rows) |-> rows[i][col]]

\* stable insertion of x into a sequence already ordered by key (a function value -> rank)
RECURSIVE InsertByKey(_, _, _)
InsertByKey(sorted, x, key) ==
    IF sorted = <<>> THEN <<x>>
    ELSE IF key[sorted[Len(sorted)]] <= key[x] THEN Append(sorted, x)
    ELSE Append(InsertByKey(SubSeq(sorted, 1, Len(sorted) - 1), x, key), sorted[Len(sorted)])

\* sorted(seq, key=...): Python's sort is stable
RECURSIVE SortedByKey(_, _)
SortedByKey(seq, key) ==
    IF seq = <<>> THEN <<>>
    ELSE InsertByKey(SortedByKey(SubSeq(seq, 1, Len(seq) - 1), key), seq[Len(seq)], key)

\* sorted(seq) of strings
Sorted(seq) == SortedByKey(seq, LexRank)

\* all sequences over S of length at most n
SeqsUpTo(S, n) == UNION {[1..k -> S] : k \in 0..n}

\* concatenation of a sequence of sequences (pd.concat, ignore_index=True)
RECURSIVE Concat(_)
Concat(seqs) ==
    IF seqs = <<>> THEN <<>>
    ELSE Concat(SubSeq(seqs, 1, Len(seqs) - 1)) \o seqs[Len(seqs)]

\* row.get(col, default)
Get(row, col, default) == IF col \in DOMAIN row THEN row[col] ELSE default

----------------------------------------------------------------------------
(* data_processor_chunked.py: DataProcessor *)

\* A chunk file name part<part>_chunk<chunk>.csv; part 0 stands for a CSV file
\* of the directory that is no chunk file.
FileName(part, chunk) == [part |-> part, chunk |-> chunk]

chunk_patterns == <<1, 2, 3, 4>>

\* glob.glob(os.path.join(data_dir, pattern)) followed by chunk_files.sort()
GlobSorted(dir, pattern) ==
    LET found == {n \in DOMAIN dir : n.part = pattern}
        names == CHOOSE q \in [1..Cardinality(found) -> found] :
                     /\ Range(q) = found
                     /\ \A i, j \in 1..Len(q) : i < j => q[i].chunk < q[j].chunk
    IN  names

\* DataFrame.drop_duplicates(): the first occurrence of every row is kept, in order
drop_duplicates(rows) == Unique(rows)

\* the drop_duplicates() call left out: the concatenation is returned as it is
load_peak_data_keeping_duplicates(dir) ==
    LET all_chunks == Concat([p \in 1..Len(chunk_patterns) |->
                          LET chunk_files == GlobSorted(dir, chunk_patterns[p])
                          IN  [i \in 1..Len(chunk_files) |-> dir[chunk_files[i]]]])
    IN  IF \E i \in 1..Len(all_chunks) : ~all_chunks[i].readable THEN None
        ELSE IF all_chunks = <<>> THEN None
        ELSE DataFrame(Concat([i \in 1..Len(all_chunks) |-> all_chunks[i].rows]))

load_peak_data(dir) ==
    LET all_chunks == Concat([p \in 1..Len(chunk_patterns) |->
                          LET chunk_files == GlobSorted(dir, chunk_patterns[p])
                          IN  [i \in 1..Len(chunk_files) |-> dir[chunk_files[i]]]])
    IN  \* pd.read_csv raising on any file: except Exception -> return None
        IF \E i \in 1..Len(all_chunks) : ~all_chunks[i].readable THEN None
        ELSE IF all_chunks = <<>> THEN None
        ELSE LET combined_df == Concat([i \in 1..Len(all_chunks) |-> all_chunks[i].rows])
             IN  DataFrame(drop_duplicates(combined_df))

column_mapping ==
    [Enhancer_ID |-> "enhancer_id", Cargo |-> "cargo", Experiment_Type |-> "experiment",
     Proximal_Gene |-> "proximal_gene", Image_link |-> "image_link",
     Coronal_MIP |-> "coronal_mip", Sagittal_MIP |-> "sagittal_mip"]
    @@ ("Neuroglancer 1" :> "neuroglancer_1") @@ ("Neuroglancer 3" :> "neuroglancer_3")
    @@ ("Viewer Link" :> "viewer_link")

\* metadata.rename(columns=existing_columns), for one row
Rename(row) ==
    LET new_name(old) == IF old \in DOMAIN column_mapping THEN column_mapping[old] ELSE old
    IN  [c \in {new_name(old) : old \in DOMAIN row} |->
            row[CHOOSE old \in DOMAIN row : new_name(old) = c]]

load_metadata(file) ==
    IF file.exists
    THEN DataFrame([i \in 1..Len(file.rows) |-> Rename(file.rows[i])])
    ELSE None

\* no grouping: every row of a non-null key is kept, in ascending key order
GroupByKeepingAll(rows, key) ==
    LET keys == Sorted(SelectSeq(Unique(Column(rows, key)), LAMBDA k : k # NaN))
    IN  Concat([i \in 1..Len(keys) |-> SelectSeq(rows, LAMBDA r : r[key] = keys[i])])

\* df.groupby(key).first().reset_index(): one row per non-null key in ascending
\* key order; every other column holds the first non-null value of the group
GroupByFirst(rows, key) ==
    LET keys == Sorted(SelectSeq(Unique(Column(rows, key)), LAMBDA k : k # NaN))
        first(k, col) ==
            LET group == SelectSeq(rows, LAMBDA r : r[key] = k /\ r[col] # NaN)
            IN  IF group = <<>> THEN NaN ELSE group[1][col]
    IN  [i \in 1..Len(keys) |->
            [col \in DOMAIN rows[1] |-> IF col = key THEN keys[i] ELSE first(keys[i], col)]]

\* left.merge(right, on=key, how='left')
MergeLeft(left, right, key) ==
    Concat([i \in 1..Len(left) |->
        LET matches == SelectSeq(right, LAMBDA r : r[key] = left[i][key])
            other == IF right = <<>> THEN {} ELSE DOMAIN right[1] \ {key}
        IN  IF matches = <<>>
            THEN << left[i] @@ [c \in other |-> NaN] >>
            ELSE [j \in 1..Len(matches) |-> left[i] @@ [c \in other |-> matches[j][c]]]])

metadata_cols == {"enhancer_id", "cargo", "experiment", "proximal_gene", "GC delivered"}

Restrict(row, cols) == [c \in DOMAIN row \cap cols |-> row[c]]

\* the measurement-presence filter left out: one record per flagged identifier
extract_hof_enhancers_without_peak_filter(metadata_df, peak_data_) ==
    IF peak_data_.isNone \/ Empty(peak_data_) THEN DataFrame(<<>>)
    ELSE IF metadata_df.isNone \/ Empty(metadata_df) THEN DataFrame(<<>>)
    ELSE LET hof_metadata == SelectSeq(metadata_df.rows, LAMBDA r : r["Hall_of_fame"] = "TRUE")
             hof_enhancer_ids == Sorted(Unique(Column(hof_metadata, "enhancer_id")))
             metadata_for_merge == GroupByFirst(metadata_df.rows, "enhancer_id")
             hof_df == [i \in 1..Len(hof_enhancer_ids) |->
                          [enhancer_id |-> hof_enhancer_ids[i], chr |-> "", start |-> "0",
                           end |-> "0"]]
         IN  DataFrame(MergeLeft(hof_df,
                 [i \in 1..Len(metadata_for_merge) |->
                     Restrict(metadata_for_merge[i], metadata_cols)], "enhancer_id"))

extract_hof_enhancers(metadata_df, peak_data_) ==
    IF peak_data_.isNone \/ Empty(peak_data_) THEN DataFrame(<<>>)
    ELSE IF metadata_df.isNone \/ Empty(metadata_df) THEN DataFrame(<<>>)
    ELSE LET hof_metadata == SelectSeq(metadata_df.rows, LAMBDA r : r["Hall_of_fame"] = "TRUE")
         IN  IF hof_metadata = <<>> THEN DataFrame(<<>>)
             ELSE LET hof_enhancer_ids == Unique(Column(hof_metadata, "enhancer_id"))
                      hof_peak_data == SelectSeq(peak_data_.rows,
                                           LAMBDA r : r["enhancer_id"] \in Range(hof_enhancer_ids))
                      first_occurrences == GroupByFirst(hof_peak_data, "enhancer_id")
                      hof_df == [i \in 1..Len(first_occurrences) |->
                                   [enhancer_id |-> first_occurrences[i]["enhancer_id"],
                                    chr |-> Get(first_occurrences[i], "chr", ""),
                                    start |-> Get(first_occurrences[i], "start", "0"),
                                    end |-> Get(first_occurrences[i], "end", "0")]]
                  IN  IF hof_df = <<>> THEN DataFrame(<<>>)
                      ELSE LET metadata_for_merge == GroupByFirst(metadata_df.rows, "enhancer_id")
                           IN  DataFrame(MergeLeft(hof_df,
                                   [i \in 1..Len(metadata_for_merge) |->
                                       Restrict(metadata_for_merge[i], metadata_cols)],
                                   "enhancer_id"))

\* metadata_df['Hall_of_fame'] (line 154) raises KeyError when the column is absent;
\* nothing in DataProcessor catches it
ExtractRaises(metadata_df, peak_data_) ==
    /\ ~(peak_data_.isNone \/ Empty(peak_data_))
    /\ ~(metadata_df.isNone \/ Empty(metadata_df))
    /\ "Hall_of_fame" \notin DOMAIN metadata_df.rows[1]

\* the columns of a table that has a row (an empty table of the input files has
\* the columns of its file format)
HasColumn(df, column) == Empty(df) \/ column \in DOMAIN df.rows[1]

\* the common-enhancers block entered without its None tests:
\* metadata['enhancer_id'] on None raises TypeError
validate_data_integrity_without_none_test(peak_data_, metadata) ==
    LET counted(df) == ~df.isNone /\ ~Empty(df)
        unique_enhancers(df) == Cardinality(Range(Column(df.rows, "enhancer_id")))
    IN  IF \/ counted(peak_data_) /\ ~HasColumn(peak_data_, "enhancer_id")
           \/ counted(metadata) /\ ~HasColumn(metadata, "enhancer_id")
           \/ peak_data_.isNone \/ metadata.isNone
           \/ ~HasColumn(peak_data_, "enhancer_id") \/ ~HasColumn(metadata, "enhancer_id")
        THEN [raised |-> TRUE, peak_data |-> peak_data_, metadata |-> metadata, log |-> <<>>]
        ELSE [raised |-> FALSE, peak_data |-> peak_data_, metadata |-> metadata,
              log |-> <<IF counted(peak_data_) THEN unique_enhancers(peak_data_) ELSE -1,
                        IF counted(metadata) THEN unique_enhancers(metadata) ELSE -1,
                        Cardinality(Range(Column(peak_data_.rows, "enhancer_id"))
                                    \cap Range(Column(metadata.rows, "enhancer_id")))>>]

\* validate_data_integrity: [raised, peak_data, metadata, log]; the two tables as
\* the call leaves them, and the counts it prints (unique enhancers of each
\* table, -1 for "missing or empty", and the common enhancers, -1 when that
\* block is skipped).  A column lookup raises KeyError when the column is absent.
validate_data_integrity(peak_data_, metadata) ==
    LET counted(df) == ~df.isNone /\ ~Empty(df)
        unique_enhancers(df) == Cardinality(Range(Column(df.rows, "enhancer_id")))
        compared == ~peak_data_.isNone /\ ~metadata.isNone
    IN  IF \/ counted(peak_data_) /\ ~HasColumn(peak_data_, "enhancer_id")
           \/ counted(metadata) /\ ~HasColumn(metadata, "enhancer_id")
           \/ compared /\ (~HasColumn(peak_data_, "enhancer_id") \/ ~HasColumn(metadata, "enhancer_id"))
        THEN [raised |-> TRUE, peak_data |-> peak_data_, metadata |-> metadata, log |-> <<>>]
        ELSE [raised |-> FALSE, peak_data |-> peak_data_, metadata |-> metadata,
              log |-> <<IF counted(peak_data_) THEN unique_enhancers(peak_data_) ELSE -1,
                        IF counted(metadata) THEN unique_enhancers(metadata) ELSE -1,
                        IF compared
                        THEN Cardinality(Range(Column(peak_data_.rows, "enhancer_id"))
                                         \cap Range(Column(metadata.rows, "enhancer_id")))
                        ELSE -1>>]

\* load_all_data: [exception, value, log]; value is the returned tuple
\* (peak_data, enhancer_metadata, hof_enhancers), the first two as
\* validate_data_integrity left them; log is what the validation printed
load_all_data(dir, file) ==
    LET peak_data_ == load_peak_data(dir)
    IN  IF peak_data_.isNone \/ Empty(peak_data_)
        THEN [exception |-> FALSE, value |-> <<None, None, None>>, log |-> <<>>]
        ELSE LET enhancer_metadata_ == load_metadata(file)
             IN  IF ExtractRaises(enhancer_metadata_, peak_data_)
                 THEN [exception |-> TRUE, value |-> <<>>, log |-> <<>>]
                 ELSE LET hof_enhancers_ == extract_hof_enhancers(enhancer_metadata_, peak_data_)
                          validated == validate_data_integrity(peak_data_, enhancer_metadata_)
                      IN  IF validated.raised
                          THEN [exception |-> TRUE, value |-> <<>>, log |-> <<>>]
                          ELSE [exception |-> FALSE,
                                value |-> <<validated.peak_data, validated.metadata, hof_enhancers_>>,
                                log |-> validated.log]

----------------------------------------------------------------------------
(* app.py *)

\* the cell-type labels of the model and the characters of each (str(cell_type))
Chars ==
    ("10-Neuron" :> <<"1", "0", "-", "N">>) @@ ("2-Glia" :> <<"2", "-", "G">>)
    @@ ("02-Astro" :> <<"0", "2", "-", "A">>) @@ ("Unknown" :> <<"U", "n", "k">>)
    @@ ("Other" :> <<"O", "t", "h">>) @@ ("999-Edge" :> <<"9", "9", "9", "-", "E">>)
    @@ ("1000-Deep" :> <<"1", "0", "0", "0", "-", "D">>)

Digit == [c \in {"0", "1", "2", "3", "4", "5", "6", "7", "8", "9"} |->
             CASE c = "0" -> 0 [] c = "1" -> 1 [] c = "2" -> 2 [] c = "3" -> 3
               [] c = "4" -> 4 [] c = "5" -> 5 [] c = "6" -> 6 [] c = "7" -> 7
               [] c = "8" -> 8 [] c = "9" -> 9]

\* re.match(r'^(\d+)', s).group(1): the longest prefix of digits
RECURSIVE DigitPrefix(_)
DigitPrefix(chars) ==
    IF chars = <<>> \/ chars[1] \notin DOMAIN Digit THEN <<>>
    ELSE <<chars[1]>> \o DigitPrefix(Tail(chars))

\* int() of a string of digits
RECURSIVE ToInt(_)
ToInt(digits) ==
    IF digits = <<>> THEN 0
    ELSE 10 * ToInt(SubSeq(digits, 1, Len(digits) - 1)) + Digit[digits[Len(digits)]]

NoNumberRank == 999

\* the key a plain lexicographic sort would use instead: the first character only
extract_cell_type_number_lexicographic(cell_type) ==
    LET match == DigitPrefix(Chars[cell_type])
    IN  IF match # <<>> THEN Digit[match[1]] ELSE NoNumberRank

extract_cell_type_number(cell_type) ==
    LET match == DigitPrefix(Chars[cell_type])
    IN  IF match # <<>> THEN ToInt(match) ELSE NoNumberRank

\* sorted(peak_data['cell_type'].unique(), key=extract_cell_type_number)
SortedCellTypes(rows) ==
    LET labels == Unique(Column(rows, "cell_type"))
    IN  SortedByKey(labels, [l \in Range(labels) |-> extract_cell_type_number(l)])

Facets == {"enhancer", "cargo", "experiment", "gene", "gc_delivered", "cell_type"}

Cascading == Facets \ {"cell_type"}

\* the metadata column each cascading facet filters on and lists
FacetColumn ==
    [enhancer |-> "enhancer_id", cargo |-> "cargo", experiment |-> "experiment",
     gene |-> "proximal_gene", gc_delivered |-> "GC delivered"]

\* the key of the options dictionary for each facet
OptionsKey ==
    [enhancer |-> "enhancers", cargo |-> "cargos", experiment |-> "experiments",
     gene |-> "genes", gc_delivered |-> "gc_delivered", cell_type |-> "cell_types"]

AllSelected == [f \in Facets |-> "All"]

\* the facet's own selection applied as well (the exclude_filter test left out)
get_options_for_filter_without_exclusion(exclude_filter, selected_filters, base_metadata_) ==
    SelectSeq(base_metadata_.rows, LAMBDA r :
        \A f \in Cascading : selected_filters[f] # "All" => r[FacetColumn[f]] = selected_filters[f])

\* current_metadata: the base rows matching every other cascading facet's selection
get_options_for_filter(exclude_filter, selected_filters, base_metadata_) ==
    SelectSeq(base_metadata_.rows, LAMBDA r :
        \A f \in Cascading \ {exclude_filter} :
            selected_filters[f] # "All" => r[FacetColumn[f]] = selected_filters[f])

\* the cell types guarded like the other five lists: "... if not metadata.empty else []"
get_filtered_options_cell_types_guarded(selected_filters, base_metadata_, base_cell_types_) ==
    LET available(f) ==
            LET current_metadata == get_options_for_filter(f, selected_filters, base_metadata_)
                values == Unique(Column(current_metadata, FacetColumn[f]))
            IN  IF f = "enhancer" THEN Sorted(values)
                ELSE Sorted(SelectSeq(values, LAMBDA x : x # NaN /\ x # ""))
    IN  [k \in {OptionsKey[f] : f \in Facets} |->
            IF k = "cell_types"
            THEN IF get_options_for_filter("cell_type", selected_filters, base_metadata_) = <<>>
                 THEN <<>>
                 ELSE base_cell_types_
            ELSE available(CHOOSE f \in Cascading : OptionsKey[f] = k)]

get_filtered_options(selected_filters, base_metadata_, base_cell_types_) ==
    LET available(f) ==
            LET current_metadata == get_options_for_filter(f, selected_filters, base_metadata_)
                values == Unique(Column(current_metadata, FacetColumn[f]))
            IN  IF f = "enhancer" THEN Sorted(values)
                ELSE Sorted(SelectSeq(values, LAMBDA x : x # NaN /\ x # ""))
    IN  [k \in {OptionsKey[f] : f \in Facets} |->
            IF k = "cell_types" THEN base_cell_types_
            ELSE available(CHOOSE f \in Cascading : OptionsKey[f] = k)]

NoOptions == [k \in {OptionsKey[f] : f \in Facets} |-> <<>>]

\* df.drop_duplicates(subset=[key], keep='first')
DropDuplicatesBy(rows, key) ==
    SelectSeq([i \in 1..Len(rows) |-> [i |-> i, row |-> rows[i]]],
              LAMBDA x : \A j \in 1..(x.i - 1) : rows[j][key] # x.row[key])

Rows(indexed) == [i \in 1..Len(indexed) |-> indexed[i].row]

metadata_facets == {"cargo", "experiment", "gene", "gc_delivered"}

\* the gene selection compared with the cargo column
ApplySelection_gene_on_cargo_column(selected, hof_enhancers_, enhancer_metadata_) ==
    IF ~hof_enhancers_.isNone /\ ~Empty(hof_enhancers_)
    THEN LET all_ids == Range(Column(hof_enhancers_.rows, "enhancer_id"))
         IN  IF ~enhancer_metadata_.isNone /\ ~Empty(enhancer_metadata_)
             THEN LET filtered_metadata ==
                          SelectSeq(enhancer_metadata_.rows, LAMBDA r :
                              \A f \in metadata_facets :
                                  selected[f] # "All" =>
                                      r[IF f = "gene" THEN "cargo" ELSE FacetColumn[f]] = selected[f])
                      matching_enhancer_ids == Range(Column(filtered_metadata, "enhancer_id"))
                      enhancer_ids_to_include ==
                          IF \E f \in metadata_facets : selected[f] # "All"
                          THEN all_ids \cap matching_enhancer_ids
                          ELSE all_ids
                  IN  [filtered_enhancers |->
                           Rows(DropDuplicatesBy(
                               SelectSeq(hof_enhancers_.rows, LAMBDA r :
                                   r["enhancer_id"] \in enhancer_ids_to_include),
                               "enhancer_id")),
                       relevant_metadata |->
                           SelectSeq(enhancer_metadata_.rows, LAMBDA r :
                               r["enhancer_id"] \in enhancer_ids_to_include),
                       no_hof_error |-> FALSE]
             ELSE [filtered_enhancers |-> Rows(DropDuplicatesBy(hof_enhancers_.rows, "enhancer_id")),
                   relevant_metadata |-> <<>>,
                   no_hof_error |-> FALSE]
    ELSE [filtered_enhancers |-> <<>>, relevant_metadata |-> <<>>, no_hof_error |-> TRUE]

\* app.py:171-207: [filtered_enhancers, relevant_metadata, no_hof_error], computed
\* from the tables under the names the script gave them
ApplySelection(selected, hof_enhancers_, enhancer_metadata_) ==
    IF ~hof_enhancers_.isNone /\ ~Empty(hof_enhancers_)
    THEN LET all_ids == Range(Column(hof_enhancers_.rows, "enhancer_id"))
         IN  IF ~enhancer_metadata_.isNone /\ ~Empty(enhancer_metadata_)
             THEN LET filtered_metadata ==
                          SelectSeq(enhancer_metadata_.rows, LAMBDA r :
                              \A f \in metadata_facets :
                                  selected[f] # "All" => r[FacetColumn[f]] = selected[f])
                      matching_enhancer_ids == Range(Column(filtered_metadata, "enhancer_id"))
                      enhancer_ids_to_include ==
                          IF \E f \in metadata_facets : selected[f] # "All"
                          THEN all_ids \cap matching_enhancer_ids
                          ELSE all_ids
                  IN  [filtered_enhancers |->
                           Rows(DropDuplicatesBy(
                               SelectSeq(hof_enhancers_.rows, LAMBDA r :
                                   r["enhancer_id"] \in enhancer_ids_to_include),
                               "enhancer_id")),
                       relevant_metadata |->
                           SelectSeq(enhancer_metadata_.rows, LAMBDA r :
                               r["enhancer_id"] \in enhancer_ids_to_include),
                       no_hof_error |-> FALSE]
             ELSE [filtered_enhancers |-> Rows(DropDuplicatesBy(hof_enhancers_.rows, "enhancer_id")),
                   relevant_metadata |-> <<>>,
                   no_hof_error |-> FALSE]
    ELSE [filtered_enhancers |-> <<>>, relevant_metadata |-> <<>>, no_hof_error |-> TRUE]

\* row['chr'], int(row['start']), int(row['end']): KeyError when the column is
\* absent, ValueError when the value is NaN
LocationRaises(row) ==
    \/ {"chr", "start", "end"} \ DOMAIN row # {}
    \/ row["start"] = NaN
    \/ row["end"] = NaN

imaging_columns == {"image_link", "neuroglancer_1", "neuroglancer_3", "viewer_link",
                    "coronal_mip", "sagittal_mip"}

\* app.py:286-309: the rows the imaging row is taken from (its first row is meta_row)
ImagingRows(selected, relevant_metadata, enhancer_id) ==
    IF {"enhancer_id", "experiment"} \subseteq DOMAIN relevant_metadata[1]
    THEN LET by_experiment ==
                 SelectSeq(relevant_metadata, LAMBDA r :
                     r["enhancer_id"] = enhancer_id /\ r["experiment"] = selected["experiment"])
             enhancer_meta_row ==
                 IF selected["gc_delivered"] # "All" /\ "GC delivered" \in DOMAIN relevant_metadata[1]
                 THEN SelectSeq(by_experiment, LAMBDA r : r["GC delivered"] = selected["gc_delivered"])
                 ELSE by_experiment
         IN  IF enhancer_meta_row = <<>>
             THEN SelectSeq(relevant_metadata, LAMBDA r : r["enhancer_id"] = enhancer_id)
             ELSE enhancer_meta_row
    ELSE <<>>

\* app.py:209-479: what the run displays for the selection.  result is one of
\* warning_no_match, summary, detail, not_found, exception (an uncaught exception
\* ends the run); meta_row and imaging hold at most one element.
Display(selected, applied) ==
    LET filtered_enhancers == applied.filtered_enhancers
        relevant_metadata == applied.relevant_metadata
        blank == [result |-> "warning_no_match", shown |-> <<>>, meta_row |-> <<>>, imaging |-> <<>>]
    IN  IF filtered_enhancers = <<>> THEN blank
        ELSE IF selected["enhancer"] = "All"
        THEN IF \E i \in 1..Len(filtered_enhancers) : LocationRaises(filtered_enhancers[i])
             THEN [blank EXCEPT !.result = "exception"]
             ELSE [blank EXCEPT !.result = "summary",
                                !.shown = Column(filtered_enhancers, "enhancer_id")]
        ELSE LET selected_row == SelectSeq(filtered_enhancers, LAMBDA r :
                                     r["enhancer_id"] = selected["enhancer"])
             IN  IF selected_row = <<>> THEN [blank EXCEPT !.result = "not_found"]
                 ELSE IF LocationRaises(selected_row[1]) THEN [blank EXCEPT !.result = "exception"]
                 ELSE LET enhancer_id == selected_row[1]["enhancer_id"]
                          enhancer_meta ==
                              IF relevant_metadata # <<>> /\ "enhancer_id" \in DOMAIN relevant_metadata[1]
                              THEN SelectSeq(relevant_metadata, LAMBDA r : r["enhancer_id"] = enhancer_id)
                              ELSE <<>>
                          detail == [blank EXCEPT !.result = "detail", !.shown = <<enhancer_id>>]
                      IN  IF enhancer_meta = <<>> THEN detail
                          ELSE LET enhancer_meta_row == ImagingRows(selected, relevant_metadata, enhancer_id)
                               IN  IF enhancer_meta_row = <<>> THEN detail
                                   ELSE LET meta_row == enhancer_meta_row[1]
                                        IN  \* meta_row.get('experiment', '').upper() on a NaN
                                            IF Get(meta_row, "experiment", "") = NaN
                                            THEN [blank EXCEPT !.result = "exception"]
                                            ELSE [detail EXCEPT
                                                     !.meta_row = <<meta_row>>,
                                                     !.imaging = <<[c \in imaging_columns |->
                                                                      Get(meta_row, c, "")]>>]

\* "if x and x != 'FALSE' and pd.notna(x)" of an imaging field
HasValue(x) == x # "" /\ x # "FALSE" /\ x # NaN

\* [url.strip() for url in str(x).split(',')], or [str(x).strip()] without a comma
Urls(x) == IF x = "img_a, img_b" THEN <<"img_a", "img_b">> ELSE <<x>>

\* app.py:322-365: the three collections built from the imaging fields
ImagingCollections(fields) ==
    LET entries(c) == IF HasValue(fields[c]) THEN Urls(fields[c]) ELSE <<>>
    IN  [contact_sheets |-> entries("image_link"),
         viewer_components |-> entries("neuroglancer_1") \o entries("neuroglancer_3")
                               \o entries("viewer_link"),
         mip_projections |-> entries("coronal_mip") \o entries("sagittal_mip")]

NothingRendered ==
    [success |-> FALSE, load_error |-> FALSE, controls |-> FALSE, no_hof_error |-> FALSE,
     result |-> "none", shown |-> <<>>, meta_row |-> <<>>, imaging |-> <<>>]

----------------------------------------------------------------------------
(* Input files *)

PeakRow(e, chr, cell_type) ==
    [enhancer_id |-> e, chr |-> chr, start |-> "100", end |-> "200",
     cell_type |-> cell_type, accessibility |-> "0.5"]

\* a row of the feather file, under the source's column names
MetaRow(e, flag, cargo, experiment, gc, image) ==
    [Enhancer_ID |-> e, Hall_of_fame |-> flag, Cargo |-> cargo,
     Experiment_Type |-> experiment, Proximal_Gene |-> "G1", Image_link |-> image,
     Coronal_MIP |-> "", Sagittal_MIP |-> NaN]
    @@ ("GC delivered" :> gc) @@ ("Neuroglancer 1" :> "FALSE")
    @@ ("Neuroglancer 3" :> NaN) @@ ("Viewer Link" :> NaN)

\* the same row in a file that also has the location columns
WithLocation(row) == row @@ [chr |-> "chr9", start |-> "500", end |-> "900"]

WithoutFlag(row) == [c \in DOMAIN row \ {"Hall_of_fame"} |-> row[c]]

ReadableFile(rows) == [readable |-> TRUE, rows |-> rows]

UnreadableFile == [readable |-> FALSE, rows |-> <<>>]

NoMetadataFile == [exists |-> FALSE, rows |-> <<>>]

MetadataFile(rows) == [exists |-> TRUE, rows |-> rows]

EmptyDir == [n \in {} |-> UnreadableFile]

OneFileDir(file) == [n \in {FileName(1, 1)} |-> file]

\* chunk directories of the duplicate-removal runs: up to four chunk files
FileNamesPeak == {FileName(1, 1), FileName(1, 2), FileName(2, 1), FileName(4, 1)}

PeakPoolPeak == {PeakRow("E1", "chr1", "2-Glia"), PeakRow("E2", "chr2", "10-Neuron")}

\* inputs of the curated-subset runs
PeakPoolLoad == {PeakRow(e, c, "2-Glia") : e \in {"E1", "E2"}, c \in {"chr1", NaN}}

MetaPoolLoad == {MetaRow(e, flag, cargo, "EPI", "1e10", "img_a") :
                    e \in {"E1", "E2"}, flag \in {"TRUE", "FALSE", "True"}, cargo \in {"X", NaN}}

\* inputs of the cell-type sort runs
Labels == DOMAIN Chars

\* inputs of the session runs
Variants == {<<"X", "LIGHTSHEET", "1e9", "img_a">>, <<"X", "EPI", "1e10", "img_b">>,
             <<"Y", "EPI", "1e10", "img_c">>}

MetaPoolApp == {MetaRow(e, "TRUE", v[1], v[2], v[3], v[4]) : e \in {"E1", "E2"}, v \in Variants}

\* metadata tables of the session runs outside the pool: a table whose only row
\* is not flagged, with and without the location columns, and a flagged row whose
\* cargo is the literal "FALSE"
SpecialTablesApp ==
    {<<MetaRow("E1", "FALSE", "X", "EPI", "1e10", "img_b")>>,
     <<WithLocation(MetaRow("E1", "FALSE", "X", "EPI", "1e10", "img_b"))>>,
     <<WithLocation(MetaRow("E1", "TRUE", "FALSE", "EPI", "1e10", "img_b"))>>}

PeakRowsApp(ids) ==
    LET order == SelectSeq(<<"E2", "E1">>, LAMBDA e : e \in ids)
    IN  [i \in 1..Len(order) |->
            PeakRow(order[i], "chr1", IF order[i] = "E1" THEN "2-Glia" ELSE "10-Neuron")]

----------------------------------------------------------------------------
(* The session *)

NotLoaded == [exception |-> FALSE, value |-> <<>>, log |-> <<>>]

InitSession ==
    /\ pc = "start"
    /\ load_result = NotLoaded
    /\ peak_data = None
    /\ hof_enhancers = None
    /\ enhancer_metadata = None
    /\ base_enhancers = <<>>
    /\ base_metadata = DataFrame(<<>>)
    /\ base_cell_types = <<>>
    /\ filter_state = AllSelected
    /\ current_options = NoOptions
    /\ rendered = NothingRendered

InitPeak ==
    /\ chunk_dir \in UNION {[names -> {ReadableFile(t) : t \in SeqsUpTo(PeakPoolPeak, MaxChunkRows)}] :
                               names \in SUBSET FileNamesPeak}
    /\ metadata_file = NoMetadataFile
    /\ InitSession

InitLoad ==
    /\ chunk_dir \in {OneFileDir(ReadableFile(t)) : t \in SeqsUpTo(PeakPoolLoad, MaxChunkRows)}
    /\ metadata_file \in {NoMetadataFile}
                         \cup {MetadataFile(t) : t \in SeqsUpTo(MetaPoolLoad, MaxMetaRows)}
    /\ InitSession

InitSort ==
    /\ chunk_dir \in {OneFileDir(ReadableFile([i \in 1..Len(labels) |->
                                                  PeakRow("E1", "chr1", labels[i])])) :
                         labels \in SeqsUpTo(Labels, MaxLabels)}
    /\ metadata_file = NoMetadataFile
    /\ InitSession

Init ==
    /\ \/ /\ chunk_dir \in {EmptyDir, OneFileDir(UnreadableFile), OneFileDir(ReadableFile(<<>>))}
          /\ metadata_file = MetadataFile(<<MetaRow("E1", "TRUE", "X", "EPI", "1e10", "img_b")>>)
       \/ /\ chunk_dir \in {OneFileDir(ReadableFile(PeakRowsApp(ids))) : ids \in {{"E1"}, {"E1", "E2"}}}
          /\ metadata_file \in
                {NoMetadataFile,
                 MetadataFile(<<WithoutFlag(MetaRow("E1", "TRUE", "X", "EPI", "1e10", "img_b"))>>)}
                \cup {MetadataFile(t) : t \in SpecialTablesApp}
                \cup {MetadataFile(t) : t \in SeqsUpTo(MetaPoolApp, 1)}
                \cup {MetadataFile([i \in 1..Len(t) |-> WithLocation(t[i])]) :
                         t \in SeqsUpTo(MetaPoolApp, MaxMetaRows) \ {<<>>}}
    /\ InitSession

\* DataProcessor().load_all_data(), called by load_data() in the first run
LoadAllData ==
    /\ pc = "start"
    /\ load_result' = load_all_data(chunk_dir, metadata_file)
    /\ pc' = "loaded"
    /\ UNCHANGED <<chunk_dir, metadata_file, peak_data, hof_enhancers, enhancer_metadata,
                   base_enhancers, base_metadata, base_cell_types, filter_state,
                   current_options, rendered>>

\* app.py:23-59: unpack the tuple, or show the error and stop; then the base lists
\* and the initial filter state
LoadData ==
    /\ pc = "loaded"
    /\ IF load_result.exception
       THEN /\ rendered' = [rendered EXCEPT !.load_error = TRUE]
            /\ pc' = "stopped"
            /\ UNCHANGED <<peak_data, hof_enhancers, enhancer_metadata, base_enhancers,
                           base_metadata, base_cell_types, filter_state>>
       ELSE LET peak_data_ == load_result.value[1]
                hof_enhancers_ == load_result.value[2]
                enhancer_metadata_ == load_result.value[3]
                base_enhancers_ ==
                    IF ~hof_enhancers_.isNone /\ ~Empty(hof_enhancers_)
                       /\ "enhancer_id" \in DOMAIN hof_enhancers_.rows[1]
                    THEN Sorted(Unique(Column(hof_enhancers_.rows, "enhancer_id")))
                    ELSE <<>>
            IN  /\ peak_data' = peak_data_
                /\ hof_enhancers' = hof_enhancers_
                /\ enhancer_metadata' = enhancer_metadata_
                /\ rendered' = [rendered EXCEPT !.success = TRUE]
                /\ base_enhancers' = base_enhancers_
                /\ base_metadata' =
                       IF ~enhancer_metadata_.isNone /\ ~Empty(enhancer_metadata_)
                       THEN DataFrame(SelectSeq(enhancer_metadata_.rows, LAMBDA r :
                                r["enhancer_id"] \in Range(base_enhancers_)))
                       ELSE DataFrame(<<>>)
                /\ base_cell_types' =
                       IF ~peak_data_.isNone /\ ~Empty(peak_data_)
                       THEN SortedCellTypes(peak_data_.rows)
                       ELSE <<>>
                /\ filter_state' = AllSelected
                /\ pc' = "options"
    /\ UNCHANGED <<chunk_dir, metadata_file, load_result, current_options>>

\* the filters applied to the base table itself (no copy): the table is left
\* holding the rows that matched the current selections
ComputeOptionsFilteringInPlace ==
    /\ pc = "options"
    /\ current_options' = get_filtered_options(filter_state, base_metadata, base_cell_types)
    /\ base_metadata' = DataFrame(get_options_for_filter("cell_type", filter_state, base_metadata))
    /\ rendered' = [NothingRendered EXCEPT !.success = TRUE]
    /\ pc' = "widgets"
    /\ UNCHANGED <<chunk_dir, metadata_file, load_result, peak_data, hof_enhancers,
                   enhancer_metadata, base_enhancers, base_cell_types, filter_state>>

\* app.py:116: current_options = get_filtered_options(filter_state, base_metadata).
\* A run after the first starts here: load_data() is cached and lines 23-59 give
\* the values they gave before; the page is redrawn from the success banner on.
ComputeOptions ==
    /\ pc = "options"
    /\ current_options' = get_filtered_options(filter_state, base_metadata, base_cell_types)
    /\ rendered' = [NothingRendered EXCEPT !.success = TRUE]
    /\ pc' = "widgets"
    /\ UNCHANGED <<chunk_dir, metadata_file, load_result, peak_data, hof_enhancers,
                   enhancer_metadata, base_enhancers, base_metadata, base_cell_types,
                   filter_state>>

\* the experiment box given the list of the cargo box
Choices_with_cargo_list_for_experiment(f) ==
    {"All"} \cup Range(current_options[IF f = "experiment" THEN "cargos" ELSE OptionsKey[f]])

\* options=["All"] + current_options[...] of the facet's select box
Choices(f) == {"All"} \cup Range(current_options[OptionsKey[f]])

\* index=... of the facet's select box: the stored value when it is among the
\* options, "All" otherwise; the value the box returns unless the user changed it
DefaultSelection(f) ==
    IF filter_state[f] = "All" \/ filter_state[f] \notin Range(current_options[OptionsKey[f]])
    THEN "All"
    ELSE filter_state[f]

\* app.py:118-479: a run is started by the change of at most one select box, so
\* one box may return any of its options and the others return their default;
\* the filter state is replaced by the six values; the selection is applied and
\* the result displayed
SelectAndRender ==
    /\ pc = "widgets"
    /\ \E changed \in Facets, value \in {"All"} \cup UNION {Range(current_options[k]) : k \in DOMAIN current_options} :
          /\ value \in Choices(changed)
          /\ LET selected == [f \in Facets |-> IF f = changed THEN value ELSE DefaultSelection(f)]
             IN
             /\ filter_state' = selected
             /\ LET applied == ApplySelection(selected, hof_enhancers, enhancer_metadata)
                    shown == Display(selected, applied)
                IN  rendered' = [rendered EXCEPT !.controls = TRUE,
                                                 !.no_hof_error = applied.no_hof_error,
                                                 !.result = shown.result,
                                                 !.shown = shown.shown,
                                                 !.meta_row = shown.meta_row,
                                                 !.imaging = shown.imaging]
    /\ pc' = "options"
    /\ UNCHANGED <<chunk_dir, metadata_file, load_result, peak_data, hof_enhancers,
                   enhancer_metadata, base_enhancers, base_metadata, base_cell_types,
                   current_options>>

Next == LoadAllData \/ LoadData \/ ComputeOptions \/ SelectAndRender

Spec == Init /\ [][Next]_vars

NextLoad == LoadAllData

SpecPeak == InitPeak /\ [][NextLoad]_vars

SpecLoad == InitLoad /\ [][NextLoad]_vars

NextSort == LoadAllData \/ LoadData

SpecSort == InitSort /\ [][NextSort]_vars

----------------------------------------------------------------------------
(* Properties of the loader *)

\* the rows of every chunk file of the directory
ChunkFileRows == UNION {Range(chunk_dir[n].rows) : n \in {m \in DOMAIN chunk_dir : m.part \in Range(chunk_patterns)}}

Loaded == pc = "loaded" /\ ~load_result.exception

NoDuplicates(seq) == \A i, j \in 1..Len(seq) : i # j => seq[i] # seq[j]

\* identifiers with a row of the metadata file flagged exactly "TRUE"
FlaggedIds == {metadata_file.rows[i]["Enhancer_ID"] :
                  i \in {k \in 1..Len(metadata_file.rows) : metadata_file.rows[k]["Hall_of_fame"] = "TRUE"}}

\* identifiers with a row in some chunk file
MeasuredIds == {r["enhancer_id"] : r \in ChunkFileRows}

CuratedIds == Column(load_result.value[3].rows, "enhancer_id")

\* C2: every identifier of the curated subset has a metadata row whose flag is
\* exactly "TRUE" and a measurement row; an identifier flagged "TRUE" with no
\* measurement row is not in the curated subset.
C2_CuratedFlaggedAndMeasured ==
    Loaded => \A e \in Range(CuratedIds) : e \in FlaggedIds /\ e \in MeasuredIds

C2_Witness ==
    /\ Loaded
    /\ CuratedIds # <<>>
    /\ FlaggedIds \ MeasuredIds # {}

\* C3: the curated subset has exactly one row for every identifier that has a
\* metadata row flagged "TRUE" and a measurement row, and no other row.
C3_OneRowPerQualifyingId ==
    Loaded => /\ Range(CuratedIds) = FlaggedIds \cap MeasuredIds
              /\ NoDuplicates(CuratedIds)

C3_Witness ==
    /\ Loaded
    /\ \E e \in Range(CuratedIds) :
          /\ Cardinality({i \in 1..Len(metadata_file.rows) : metadata_file.rows[i]["Enhancer_ID"] = e}) > 1
          /\ Cardinality({r \in ChunkFileRows : r["enhancer_id"] = e}) > 1

\* C4: the table load_peak_data returns has the rows of all chunk files as its
\* set of rows, each distinct row once (no table is returned when there is no row).
C4_RowsOfAllChunksOnce ==
    Loaded => IF load_result.value[1].isNone
              THEN ChunkFileRows = {}
              ELSE /\ Range(load_result.value[1].rows) = ChunkFileRows
                   /\ NoDuplicates(load_result.value[1].rows)

C4_Witness ==
    /\ Loaded
    /\ DOMAIN chunk_dir = FileNamesPeak
    /\ \E n, m \in DOMAIN chunk_dir : n # m /\ Range(chunk_dir[n].rows) \cap Range(chunk_dir[m].rows) # {}
    /\ \E n \in DOMAIN chunk_dir : Len(chunk_dir[n].rows) = 2 /\ chunk_dir[n].rows[1] = chunk_dir[n].rows[2]
    /\ Len(load_result.value[1].rows) = 2

----------------------------------------------------------------------------
(* Properties of the cell-type order *)

\* C15: validate_data_integrity only logs: for every pair of tables load_all_data
\* passes to it (the metadata absent, or present and empty, included) it raises
\* nothing, and the tuple returned holds the measurement table as
\* load_peak_data gave it, the metadata table as load_metadata gave it and the
\* curated subset derived from the two.
C15_ValidationOnlyLogs ==
    (pc = "loaded" /\ ~load_peak_data(chunk_dir).isNone /\ ~Empty(load_peak_data(chunk_dir))) =>
        /\ ~load_result.exception
        /\ load_result.value[1] = load_peak_data(chunk_dir)
        /\ load_result.value[2] = load_metadata(metadata_file)
        /\ load_result.value[3] = extract_hof_enhancers(load_metadata(metadata_file),
                                                         load_peak_data(chunk_dir))

C15_Witness ==
    /\ Loaded
    /\ metadata_file.exists
    /\ metadata_file.rows = <<>>
    /\ load_result.log = <<2, -1, 0>>
    /\ load_result.value[2] = DataFrame(<<>>)

\* the first row of rows, in order, that has identifier e
FirstRowOf(rows, e) == rows[CHOOSE i \in 1..Len(rows) :
                               /\ rows[i]["enhancer_id"] = e
                               /\ \A k \in 1..(i - 1) : rows[k]["enhancer_id"] # e]

\* C16: a curated row has the chr, start and end of the first measurement row of
\* its identifier and the cargo, experiment, proximal_gene and GC delivered of
\* the first metadata row of its identifier, each group taken whole from that
\* one row, a null in it included.
C16_ValuesOfFirstRows ==
    Loaded =>
        \A i \in 1..Len(load_result.value[3].rows) :
            LET curated == load_result.value[3].rows[i]
                measured == FirstRowOf(load_result.value[1].rows, curated["enhancer_id"])
                described == FirstRowOf(load_result.value[2].rows, curated["enhancer_id"])
            IN  /\ \A c \in {"chr", "start", "end"} : curated[c] = measured[c]
                /\ \A c \in metadata_cols : curated[c] = described[c]

\* the leading integer of each label that has one
LeadingInteger ==
    ("10-Neuron" :> 10) @@ ("2-Glia" :> 2) @@ ("02-Astro" :> 2) @@ ("999-Edge" :> 999)
    @@ ("1000-Deep" :> 1000)

Rank(label) == IF label \in DOMAIN LeadingInteger THEN LeadingInteger[label] ELSE NoNumberRank

\* the labels of the measurement table in order of first appearance
LabelsAsLoaded == Unique(Column(peak_data.rows, "cell_type"))

Position(seq, x) == CHOOSE i \in 1..Len(seq) : seq[i] = x

\* C8: the cell types are ordered by the numeric value of their leading integer,
\* labels of equal rank in their order of first appearance.
C8_NumericStableOrder ==
    (pc = "options" /\ ~peak_data.isNone) =>
        /\ Range(base_cell_types) = Range(LabelsAsLoaded)
        /\ Len(base_cell_types) = Len(LabelsAsLoaded)
        /\ \A i, j \in 1..Len(base_cell_types) : i < j =>
              \/ Rank(base_cell_types[i]) < Rank(base_cell_types[j])
              \/ /\ Rank(base_cell_types[i]) = Rank(base_cell_types[j])
                 /\ Position(LabelsAsLoaded, base_cell_types[i]) < Position(LabelsAsLoaded, base_cell_types[j])

C8_Witness ==
    /\ pc = "options"
    /\ ~peak_data.isNone
    /\ LabelsAsLoaded = <<"10-Neuron", "2-Glia", "Unknown">>
    /\ base_cell_types = <<"2-Glia", "10-Neuron", "Unknown">>

\* C14: every label without a leading integer comes after every label that has
\* one, whatever the integer is (999 and above included).
C14_UnnumberedLabelsLast ==
    (pc = "options" /\ ~peak_data.isNone) =>
        \A i, j \in 1..Len(base_cell_types) :
            (/\ base_cell_types[i] \notin DOMAIN LeadingInteger
             /\ base_cell_types[j] \in DOMAIN LeadingInteger) => j < i

----------------------------------------------------------------------------
(* Properties of the session *)

Unpacked == pc \in {"options", "widgets"}

\* C1: the app uses the returned tables in the roles the loader gave them: its
\* curated subset is the table extract_hof_enhancers derived and its metadata is
\* the table load_metadata loaded.
C1_TablesInLoaderRoles ==
    (Unpacked /\ ~peak_data.isNone) =>
        /\ enhancer_metadata = load_metadata(metadata_file)
        /\ hof_enhancers = extract_hof_enhancers(load_metadata(metadata_file), peak_data)

\* the rows of the base metadata that have v in facet f's column and match the
\* selection of every other cascading facet
Supports(f, v) ==
    {i \in 1..Len(base_metadata.rows) :
        /\ base_metadata.rows[i][FacetColumn[f]] = v
        /\ \A g \in Cascading \ {f} :
              filter_state[g] # "All" => base_metadata.rows[i][FacetColumn[g]] = filter_state[g]}

FacetValues(f) == {base_metadata.rows[i][FacetColumn[f]] : i \in 1..Len(base_metadata.rows)} \ {NaN, ""}

\* C5: a value is offered for a cascading facet exactly when some base metadata
\* row has it and matches the selections of the other cascading facets; the
\* facet's own selection and the cell-type selection play no part.
C5_OptionsMatchOtherSelections ==
    pc = "widgets" =>
        \A f \in Cascading :
            Range(current_options[OptionsKey[f]]) = {v \in FacetValues(f) : Supports(f, v) # {}}

C5_Witness ==
    /\ pc = "widgets"
    /\ filter_state["cargo"] = "X"
    /\ filter_state["cell_type"] # "All"
    /\ FacetValues("experiment") \ Range(current_options["experiments"]) # {}
    /\ Len(current_options["cargos"]) > 1

\* C6: the cell-type options are the distinct cell types of the measurement
\* table in the global sort order, whatever the other five selections are.
C6_CellTypeOptionsFixed ==
    pc = "widgets" =>
        current_options["cell_types"] =
            IF peak_data.isNone THEN <<>> ELSE SortedCellTypes(peak_data.rows)

C6_Witness ==
    /\ pc = "widgets"
    /\ Len(current_options["cell_types"]) > 1
    /\ filter_state["cargo"] # "All"
    /\ filter_state["experiment"] # "All"
    /\ filter_state["enhancer"] # "All"

ImagingOf(row) == [c \in imaging_columns |-> Rename(row)[c]]

\* rows of the metadata file of the selected identifier
FileRowsOf(e) == {i \in 1..Len(metadata_file.rows) : metadata_file.rows[i]["Enhancer_ID"] = e}

\* C9: with an identifier that has metadata rows of different experiment types
\* and one of these experiments selected, the imaging fields shown are those of
\* a metadata row of that identifier with the selected experiment.
C9_ImagingOfSelectedExperiment ==
    (/\ pc = "options"
     /\ rendered.controls
     /\ filter_state["enhancer"] # "All"
     /\ filter_state["experiment"] # "All"
     /\ \E i, j \in FileRowsOf(filter_state["enhancer"]) :
           /\ metadata_file.rows[i]["Experiment_Type"] = filter_state["experiment"]
           /\ metadata_file.rows[j]["Experiment_Type"] # filter_state["experiment"])
    => /\ rendered.imaging # <<>>
       /\ \E i \in FileRowsOf(filter_state["enhancer"]) :
             /\ metadata_file.rows[i]["Experiment_Type"] = filter_state["experiment"]
             /\ rendered.imaging[1] = ImagingOf(metadata_file.rows[i])

\* the measurement load found no chunk file, could not read one, or raised
LoadFailed == load_result.exception \/ load_peak_data(chunk_dir).isNone

\* C10: after a failed measurement load the session is stopped with the load
\* error shown; no success banner, filter control or result view is rendered.
C10_FailedLoadHalts ==
    (pc \notin {"start", "loaded"} /\ LoadFailed) =>
        /\ pc = "stopped"
        /\ rendered.load_error
        /\ ~rendered.success
        /\ ~rendered.controls
        /\ rendered.result = "none"

\* the metadata file is absent, or present with no row flagged "TRUE"
NoFlaggedRow ==
    \/ ~metadata_file.exists
    \/ \A i \in 1..Len(metadata_file.rows) :
          /\ "Hall_of_fame" \in DOMAIN metadata_file.rows[i]
          /\ metadata_file.rows[i]["Hall_of_fame"] # "TRUE"

\* a run of the script has drawn its select boxes and its result
RunCompleted == pc = "options" /\ rendered.controls

\* C11: with the measurements loaded and the metadata absent or without a row
\* flagged "TRUE", loading raises nothing, the curated subset is empty, the five
\* cascading option lists are empty, and the run ends in the "no data" display
\* (the no-data error and the no-match warning) without an exception.
C11_NoFlaggedRowsShowNoData ==
    (RunCompleted /\ ~LoadFailed /\ NoFlaggedRow) =>
        /\ Empty(load_result.value[3])
        /\ \A f \in Cascading : current_options[OptionsKey[f]] = <<>>
        /\ rendered.no_hof_error
        /\ rendered.result = "warning_no_match"

\* the identifiers of filtered_enhancers, the candidates of the run just completed
Candidates ==
    Column(ApplySelection(filter_state, hof_enhancers, enhancer_metadata).filtered_enhancers,
           "enhancer_id")

\* the rows of the metadata table as loaded
MetadataRows == load_metadata(metadata_file).rows

\* row matches every selection among cargo, experiment, gene and gc_delivered
\* that is not "All"
MatchesMetadataSelections(row) ==
    \A f \in metadata_facets : filter_state[f] # "All" => row[FacetColumn[f]] = filter_state[f]

\* C12: the candidate identifiers of a run are the curated identifiers that have
\* a metadata row matching every selection among cargo, experiment, gene and
\* gc_delivered that is not "All" (all curated identifiers when the four are
\* "All"), whatever the enhancer and cell-type selections are.
C12_CandidatesAreMatchingCuratedIds ==
    (RunCompleted /\ ~LoadFailed) =>
        Range(Candidates) =
            {e \in Range(CuratedIds) :
                \E i \in 1..Len(MetadataRows) :
                    /\ MetadataRows[i]["enhancer_id"] = e
                    /\ MatchesMetadataSelections(MetadataRows[i])}

\* the values of a metadata row in the columns of the five cascading facets
FacetsOf(row) == [f \in Cascading |-> row[FacetColumn[f]]]

\* C13: the rows the cascading options are computed from are all rows of the
\* metadata table whose identifier is in the curated subset, every row of an
\* identifier that has several included (compared on the columns of the five
\* cascading facets); with every facet at "All" a value that only a later row of
\* a curated identifier has is offered.
C13_BaseRowsAreAllCuratedMetadataRows ==
    (Unpacked /\ ~LoadFailed) =>
        LET curated_rows == SelectSeq(MetadataRows, LAMBDA r : r["enhancer_id"] \in Range(CuratedIds))
        IN  /\ {FacetsOf(r) : r \in Range(base_metadata.rows)} = {FacetsOf(r) : r \in Range(curated_rows)}
            /\ (pc = "widgets" /\ filter_state = AllSelected) =>
                  \A f \in Cascading :
                      Range(current_options[OptionsKey[f]])
                          = {FacetsOf(r)[f] : r \in Range(curated_rows)} \ {NaN, ""}

\* C17: the option lists presented by a run are those computed from the six
\* selections made in that run (the filter state the run stores), not from the
\* state stored before it.
C17_OptionsOfSelectionsJustMade ==
    RunCompleted =>
        current_options = get_filtered_options(filter_state, base_metadata, base_cell_types)

NoValue == {NaN, "", "FALSE"}

\* C18: a null, an empty string and the literal "FALSE" are no value: none of
\* them is in a cascading option list or in the contact-sheet, viewer or
\* projection collection of a detail view, and a column the imaging row does
\* not have gives an empty field and no exception.
C18_NoValueNeverOffered ==
    /\ pc = "widgets" =>
          \A f \in Cascading : Range(current_options[OptionsKey[f]]) \cap NoValue = {}
    /\ (RunCompleted /\ rendered.meta_row # <<>>) =>
          /\ rendered.result = "detail"
          /\ \A c \in imaging_columns \ DOMAIN rendered.meta_row[1] : rendered.imaging[1][c] = ""
          /\ LET collections == ImagingCollections(rendered.imaging[1])
             IN  \A k \in DOMAIN collections : Range(collections[k]) \cap NoValue = {}

\* C19: after a run, the stored selection of each of the six facets is "All" or
\* one of the options the run offered for that facet; a value stored before that
\* the run no longer offers is not kept.
C19_StoredSelectionWasOffered ==
    RunCompleted =>
        \A f \in Facets :
            filter_state[f] = "All" \/ filter_state[f] \in Range(current_options[OptionsKey[f]])

C19_Witness ==
    /\ RunCompleted
    /\ filter_state["cargo"] = "X"
    /\ filter_state["enhancer"] = "E1"
    /\ filter_state["cell_type"] # "All"
    /\ "Y" \in Range(current_options["cargos"])

\* every cascading selection that is not "All" is among the options computed
\* for its facet from the filter state itself
SelfConsistent ==
    \A f \in Cascading :
        filter_state[f] # "All" =>
            filter_state[f] \in Range(get_filtered_options(filter_state, base_metadata,
                                                           base_cell_types)[OptionsKey[f]])

\* the selection leaves a candidate, the selected identifier among the
\* candidates, and neither the no-match warning nor the not-found error shown
CandidateFound ==
    /\ Candidates # <<>>
    /\ filter_state["enhancer"] # "All" => filter_state["enhancer"] \in Range(Candidates)
    /\ rendered.result \notin {"warning_no_match", "not_found"}

\* C20 as stated: in every self-consistent selection state the candidate set is
\* not empty and holds the selected identifier, and neither the no-match warning
\* nor the not-found error is shown.
C20_SelfConsistentFindsCandidate ==
    (RunCompleted /\ SelfConsistent) => CandidateFound

\* C20, amended: the same in every self-consistent selection state of a session
\* whose hall-of-fame table (hof_enhancers, as the script holds it) has a row.
C20_SelfConsistentFindsCandidateWithData ==
    (RunCompleted /\ SelfConsistent /\ ~hof_enhancers.isNone /\ ~Empty(hof_enhancers)) =>
        CandidateFound

C20_Witness ==
    /\ RunCompleted
    /\ SelfConsistent
    /\ Len(hof_enhancers.rows) > 1
    /\ filter_state["enhancer"] # "All"
    /\ filter_state["experiment"] # "All"
    /\ rendered.result = "detail"

\* the metadata rows, as loaded, of identifier e
MetadataRowsOf(e) == SelectSeq(MetadataRows, LAMBDA r : r["enhancer_id"] = e)

\* the first metadata row of e with the selected experiment (and the selected
\* GC delivered, unless that is "All"); the first metadata row of e when there
\* is none
ExpectedImagingRow(e) ==
    LET matching == SelectSeq(MetadataRowsOf(e), LAMBDA r :
                        /\ r["experiment"] = filter_state["experiment"]
                        /\ filter_state["gc_delivered"] # "All" =>
                               r["GC delivered"] = filter_state["gc_delivered"])
    IN  IF matching # <<>> THEN matching[1] ELSE MetadataRowsOf(e)[1]

\* C21: the imaging row of a detail view is the first metadata row of the
\* selected identifier matching the selected experiment (and GC delivered, when
\* not "All"), and the first metadata row of the identifier when none matches
\* or the experiment is "All": the row used has that row's experiment and GC
\* delivered, and the imaging fields shown are that row's.
C21_ImagingRowIsFirstMatchingMetadataRow ==
    (RunCompleted /\ rendered.result = "detail" /\ MetadataRowsOf(filter_state["enhancer"]) # <<>>) =>
        LET expected == ExpectedImagingRow(filter_state["enhancer"])
        IN  /\ rendered.meta_row # <<>>
            /\ rendered.meta_row[1]["experiment"] = expected["experiment"]
            /\ rendered.meta_row[1]["GC delivered"] = expected["GC delivered"]
            /\ rendered.imaging[1] = [c \in imaging_columns |-> expected[c]]

====
